---------------------------- MODULE Spec2Model ----------------------------
(***************************************************************************)
(* Model of the download / progress backend (src/backend/index.js).        *)
(*                                                                         *)
(* One record per download invocation (the locals and the request and      *)
(* response objects of app.get('/api/download/:id')), one record per       *)
(* progress subscription (app.get('/api/progress/:key')), the process-wide *)
(* progressEmitters map, and the temp directory on disk.  Every action is  *)
(* one callback of the event loop: a route handler up to its first await,  *)
(* a promise continuation, or an event listener.                           *)
(***************************************************************************)
EXTENDS Integers, Sequences, FiniteSets, TLC

(***************************************************************************)
(* Bounds of the model.                                                    *)
(***************************************************************************)
MaxFileSize   == 2   \* largest size (in blocks) the fetch tool writes
MaxProgress   == 1   \* ffmpeg 'progress' events per transcode
NumSubs       == 2   \* progress subscriptions that may be opened
MaxEmitters   == 3   \* EventEmitter objects alive at once
MaxClock      == 1   \* last reading of Date.now()
MaxStderr     == 6   \* lines the fetch tool writes to stderr
MaxBeats      == 1   \* keep-alive comments written to one subscription
NumCalls      == 2   \* calls of the page's downloadFile
MaxChunks     == 2   \* chunks read from one response body

(***************************************************************************)
(* Inputs.                                                                 *)
(***************************************************************************)
Ops      == {"op1", "op2"}          \* download invocations
SoloOps  == {"op1"}                 \* the invocation that runs alone
Subs     == 1..NumSubs              \* progress subscriptions
Ids      == {"abc"}                 \* req.params.id
\* A key string is written as the pair <<a, b>> standing for `${a}_${b}`.
NoKey      == <<>>                  \* req.query.key absent or empty (falsy)
QueryKeys  == {<<"zz", "k">>}
\* req.query.format as sent; <<>> is "absent"
RawFormats == {<<>>, <<"mp3">>, <<"MP4">>, <<"mp4">>, <<"avi">>}
Titles     == {"t"}
\* meta.duration in tenths of a second; <<>> is "absent"
MetaDurations == {<<>>, <<36009>>, <<36010>>}
\* p.timemark, as the list of its ':'-separated parts after parseFloat:
\* <<n>> is the number n, <<>> is NaN (a part that is not a number).
\* "00:30:00", "02:00:00", "-01:00:00", "a:b:c" and "N/A"
Timemarks  == { << <<0>>, <<30>>, <<0>> >>, << <<2>>, <<0>>, <<0>> >>,
                << <<-1>>, <<0>>, <<0>> >>, << <<>>, <<>>, <<>> >>,
                << <<>> >> }

VARIABLES
    dl,                 \* [Ops -> record]: one download invocation each
    fs,                 \* downloadsDir: path -> <<>> (absent) or <<size>>
    clock,              \* Date.now()
    progressEmitters,   \* key -> emitter id, 0 when the map has no entry
    listeners,          \* emitter id -> sequence of subscriptions listening
    published,          \* key -> payloads passed to sendProgress, in order
    sub,                \* [Subs -> record]: one progress subscription each
    downloading,        \* the page's state: key -> {downloading, progress, ...}
    error,              \* the page's state: the message shown
    calls               \* [Calls -> record]: one call of downloadFile each

vars == <<dl, fs, clock, progressEmitters, listeners, published, sub,
         downloading, error, calls>>

Times    == 0..MaxClock
Paths    == Titles \X Times
NullPath == <<>>
Keys     == QueryKeys \cup {<<i, f>> : i \in Ids, f \in {"mp3", "mp4", "avi"}}
Emitters == 1..MaxEmitters

(***************************************************************************)
(* Small helpers of the runtime.                                           *)
(***************************************************************************)
\* String.prototype.toLowerCase on the format strings that occur
toLowerCase(s) == IF s = "MP4" THEN "mp4" ELSE s

\* fs.existsSync
existsSync(fsys, p) == p \in DOMAIN fsys /\ fsys[p] # <<>>

\* fs.unlinkSync of an existing file
unlinkSync(fsys, p) == [fsys EXCEPT ![p] = <<>>]

\* ChildProcess.kill: a signal reaches the process only while it runs
KillState(st) == IF st = "running" THEN "killed" ELSE st

\* faulty variant of KillSignals: the signal is sent whatever the state of
\* the process
KillSignalsAlways(sigs, name, st, sig) == sigs \cup {<<name, sig>>}

KillSignals(sigs, name, st, sig) ==
    IF st = "running" THEN sigs \cup {<<name, sig>>} ELSE sigs

(***************************************************************************)
(* State after construction.                                               *)
(***************************************************************************)
InitDl ==
    [ pc            |-> "idle",
      format        |-> "",
      clientKey     |-> NoKey,
      queryKey      |-> NoKey,
      id            |-> "",
      metaDuration  |-> <<>>,
      duration      |-> 0,
      tempFilePath  |-> NullPath,
      conn          |-> "open",
      closeEmitted  |-> FALSE,
      closedIn      |-> "",
      reqAborted    |-> FALSE,
      closeListeners |-> <<>>,
      headersSent   |-> FALSE,
      statusCode    |-> 200,
      jsonBody      |-> FALSE,
      contentType   |-> "",
      disposition   |-> "",
      headersAtSpawn |-> FALSE,
      bodyStarted   |-> FALSE,
      headersAtBody |-> FALSE,
      contentLength |-> <<>>,
      resFinished   |-> FALSE,
      ytProc        |-> "none",
      ytCode        |-> 0,
      dlProc        |-> "none",
      dlCode        |-> 0,
      dlClosed      |-> FALSE,
      settled       |-> FALSE,
      failure       |-> [kind |-> "none", details |-> <<>>, of |-> 0],
      abortedDuringDownload |-> FALSE,
      ff            |-> "none",
      nprogress     |-> 0,
      sent          |-> 0,
      readStream    |-> "none",
      spawned       |-> [meta |-> 0, fetch |-> 0, ffmpeg |-> 0],
      signalled     |-> {},
      unlinks       |-> 0 ]

InitSub ==
    [ state     |-> "idle",
      key       |-> NoKey,
      emitter   |-> 0,
      received  |-> <<>>,
      joinedAt  |-> 0,
      before    |-> {},
      leftAt    |-> 0,
      beats     |-> 0,
      keepAlive |-> FALSE ]

\* a call of downloadFile: its position and its locals (key, es, timeoutId,
\* controller.signal.aborted, total, received), the timer set in `finally`,
\* and the way it left the function
Calls == 1..NumCalls

InitCall ==
    [ pc        |-> "idle",
      key       |-> NoKey,
      es        |-> "none",
      timeoutId |-> "unset",
      aborted   |-> FALSE,
      total     |-> 0,
      received  |-> 0,
      removal   |-> "unset",
      exit      |-> "" ]

Init ==
    /\ downloading = [k \in {} |-> 0]
    /\ error = ""
    /\ calls = [c \in Calls |-> InitCall]
    /\ dl = [o \in Ops |-> InitDl]
    /\ fs = [p \in Paths |-> <<>>]
    /\ clock = 0
    /\ progressEmitters = [k \in Keys |-> 0]
    /\ listeners = [e \in Emitters |-> <<>>]
    /\ published = [k \in Keys |-> <<>>]
    /\ sub = [s \in Subs |-> InitSub]

(***************************************************************************)
(* Progress registry: getEmitter, sendProgress.                            *)
(***************************************************************************)
Range(f) == {f[i] : i \in DOMAIN f}

\* new EventEmitter(): an object no one refers to
FreshEmitters(map) ==
    {e \in Emitters : listeners[e] = <<>> /\ \A k \in Keys : map[k] # e}

CanCreateEmitter(map) == FreshEmitters(map) # {}

NewEmitter(map) == CHOOSE e \in FreshEmitters(map) : \A x \in FreshEmitters(map) : e <= x

\* faulty variant of getEmitter: the `has` test is lost, every call installs a
\* new emitter
getEmitterAlwaysNew(map, key) ==
    IF CanCreateEmitter(map) THEN [map EXCEPT ![key] = NewEmitter(map)] ELSE map

\* getEmitter(key): the map after the call (the entry is created when missing)
getEmitter(map, key) ==
    IF map[key] = 0 THEN [map EXCEPT ![key] = NewEmitter(map)] ELSE map

\* JSON.stringify of a payload field: NaN is written as null
Num(n)  == <<"num", n>>
Null    == <<"null", 0>>
NaN     == <<"NaN", 0>>
Absent  == <<"absent", 0>>

JSONstringify(payload) ==
    [payload EXCEPT !.progress = IF @ = NaN THEN Null ELSE @]

\* onProgress of subscription s: res.write of the encoded payload
onProgress(r, payload) ==
    [r EXCEPT !.received = Append(@, JSONstringify(payload))]

\* emitter.emit('progress', payload): every listener of the emitter runs
Emit(e, payload) ==
    [s \in Subs |-> IF s \in Range(listeners[e])
                    THEN onProgress(sub[s], payload) ELSE sub[s]]

\* sendProgress(key, payload)
sendProgress(key, payload) ==
    /\ published' = [published EXCEPT ![key] = Append(@, payload)]
    /\ sub' = IF progressEmitters[key] # 0
              THEN Emit(progressEmitters[key], payload) ELSE sub

NoProgress == UNCHANGED <<published, sub>>

Payload(status, progress, timemark) ==
    [status |-> status, progress |-> progress, timemark |-> timemark]

(***************************************************************************)
(* Pieces of the download handler.                                         *)
(***************************************************************************)
\* res.status(code).json(body)
Json(d, code) ==
    [d EXCEPT !.statusCode = code, !.jsonBody = TRUE,
              !.headersSent = TRUE, !.resFinished = TRUE]

\* the duration ceiling, in seconds
MaxDuration == 3600

\* Math.floor(meta.duration || 0), meta.duration in tenths of a second
FloorDuration(md) == IF md = <<>> THEN 0 ELSE md[1] \div 10

\* faulty variant of ClientKey: req.query.key is not looked at
ClientKeyDerivedOnly(queryKey, id, format) == <<id, format>>

\* clientKey
ClientKey(queryKey, id, format) ==
    IF queryKey # NoKey THEN queryKey ELSE <<id, format>>

\* faulty variant of UnlinkIfExists: the whole directory is emptied
UnlinkEverything(fsys, p) ==
    IF p # NullPath /\ existsSync(fsys, p) THEN [q \in DOMAIN fsys |-> <<>>] ELSE fsys

\* try { if (fs.existsSync(p)) fs.unlinkSync(p) } : the disk afterwards
UnlinkIfExists(fsys, p) ==
    IF p # NullPath /\ existsSync(fsys, p) THEN unlinkSync(fsys, p) ELSE fsys

\* the number of unlinkSync calls that sequence makes
UnlinkCalls(fsys, p) ==
    IF p # NullPath /\ existsSync(fsys, p) THEN 1 ELSE 0

\* new Error(...) handed to the catch block: what went wrong, the lines of
\* diagnostics it carries, and how many lines the diagnostics had
Failure(d, kind, details, of) ==
    IF d.settled THEN d
    ELSE [d EXCEPT !.failure = [kind |-> kind, details |-> details, of |-> of]]

\* the number of diagnostic lines kept in a failure message
DiagLines == 5

\* lines.slice(-DiagLines)
LastLines(lines) ==
    IF Len(lines) <= DiagLines THEN lines
    ELSE SubSeq(lines, Len(lines) - DiagLines + 1, Len(lines))

\* the catch block of the download handler; W is [d, fs]
CatchBlock(d, fsys) ==
    LET d1 == IF d.ytProc # "none"
              THEN [d EXCEPT !.ytProc = KillState(@),
                             !.signalled = KillSignals(@, "ytProc", d.ytProc, "SIGTERM")]
              ELSE d
        d2 == [d1 EXCEPT !.unlinks = @ + UnlinkCalls(fsys, d.tempFilePath)]
        d3 == IF ~d2.headersSent THEN Json(d2, 500)
              ELSE [d2 EXCEPT !.resFinished = TRUE]
    IN  [d |-> [d3 EXCEPT !.pc = "returned", !.settled = TRUE],
         fs |-> UnlinkIfExists(fsys, d.tempFilePath)]

\* res.setHeader(...) of the mp3 branch and res.flushHeaders()
Mp3Headers(d) ==
    [d EXCEPT !.disposition = "attachment",
              !.contentType = "audio/mpeg",
              !.headersSent = TRUE]

\* spawn of yt-dlp and the ffmpeg command of the mp3 branch; headersAtSpawn
\* keeps what res.headersSent was at that point
Mp3Spawn(d, spawnOk) ==
    [d EXCEPT !.ytProc = IF spawnOk THEN "running" ELSE "spawnfail",
              !.spawned = [@ EXCEPT !.fetch = @ + 1, !.ffmpeg = @ + 1],
              !.headersAtSpawn = d.headersSent,
              !.ff = "pending"]

\* faulty variant of StartMp3: the processes are started before the headers
\* are set and flushed
StartMp3SpawnFirst(d, spawnOk) ==
    [Mp3Headers(Mp3Spawn(d, spawnOk))
        EXCEPT !.closeListeners = Append(@, "mp3Close"),
               !.pc = "streaming"]

\* the mp3 branch up to its return
StartMp3(d, spawnOk) ==
    [Mp3Spawn(Mp3Headers(d), spawnOk)
        EXCEPT !.closeListeners = Append(@, "mp3Close"),
               !.pc = "streaming"]

\* the mp4 branch up to the await of the download promise
StartMp4(d, title, now, spawnOk) ==
    [d EXCEPT !.tempFilePath = <<title, now>>,
              !.closeListeners = Append(@, "onClientCloseWhileDownloading"),
              !.dlProc = IF spawnOk THEN "running" ELSE "spawnfail",
              !.spawned = [@ EXCEPT !.fetch = @ + 1],
              !.pc = "materializing"]

\* faulty variant of AfterMetadata: the duration check is lost
AfterMetadataUnchecked(d0, md, title, now, spawnOk) ==
    LET d == [d0 EXCEPT !.metaDuration = md, !.duration = FloorDuration(md),
                        !.clientKey = ClientKey(d0.queryKey, d0.id, d0.format)]
    IN  CASE d.format = "mp3" -> StartMp3(d, spawnOk)
          [] d.format = "mp4" -> StartMp4(d, title, now, spawnOk)
          [] OTHER -> [Json(d, 400) EXCEPT !.pc = "returned"]

\* faulty variant of AfterMetadata: the temp path is made before the checks
AfterMetadataPathFirst(d0, md, title, now, spawnOk) ==
    LET d == [d0 EXCEPT !.metaDuration = md, !.duration = FloorDuration(md),
                        !.tempFilePath = <<title, now>>]
    IN  IF d.duration > MaxDuration THEN [Json(d, 400) EXCEPT !.pc = "returned"]
        ELSE LET dk == [d EXCEPT !.clientKey = ClientKey(d.queryKey, d.id, d.format)]
             IN  CASE d.format = "mp3" -> StartMp3(dk, spawnOk)
                   [] d.format = "mp4" -> StartMp4(dk, title, now, spawnOk)
                   [] OTHER -> [Json(dk, 400) EXCEPT !.pc = "returned"]

\* faulty variant of AfterMetadata: `>=` in place of `>`
AfterMetadataRejectsAtLimit(d0, md, title, now, spawnOk) ==
    LET d == [d0 EXCEPT !.metaDuration = md, !.duration = FloorDuration(md)]
    IN  IF d.duration >= MaxDuration THEN [Json(d, 400) EXCEPT !.pc = "returned"]
        ELSE LET dk == [d EXCEPT !.clientKey = ClientKey(d.queryKey, d.id, d.format)]
             IN  CASE d.format = "mp3" -> StartMp3(dk, spawnOk)
                   [] d.format = "mp4" -> StartMp4(dk, title, now, spawnOk)
                   [] OTHER -> [Json(dk, 400) EXCEPT !.pc = "returned"]

\* the handler from the resolved metadata to its next await or return
AfterMetadata(d0, md, title, now, spawnOk) ==
    LET d == [d0 EXCEPT !.metaDuration = md, !.duration = FloorDuration(md)]
    IN  IF d.duration > MaxDuration THEN [Json(d, 400) EXCEPT !.pc = "returned"]
        ELSE LET dk == [d EXCEPT !.clientKey = ClientKey(d.queryKey, d.id, d.format)]
             IN  CASE d.format = "mp3" -> StartMp3(dk, spawnOk)
                   [] d.format = "mp4" -> StartMp4(dk, title, now, spawnOk)
                   [] OTHER -> [Json(dk, 400) EXCEPT !.pc = "returned"]

(***************************************************************************)
(* The download route: request, metadata.                                  *)
(***************************************************************************)
\* app.get('/api/download/:id') up to `await ytDlpMetadata(url)`
Request(o) ==
    /\ dl[o].pc = "idle"
    /\ \E id \in Ids, rf \in RawFormats, qk \in QueryKeys \cup {NoKey} :
         dl' = [dl EXCEPT ![o] =
                  [@ EXCEPT !.pc = "validating",
                            !.id = id,
                            !.format = IF rf = <<>> THEN "mp3" ELSE toLowerCase(rf[1]),
                            !.queryKey = qk,
                            !.spawned = [@ EXCEPT !.meta = @ + 1]]]
    /\ UNCHANGED <<downloading, error, calls, fs, clock, progressEmitters, listeners, published, sub>>

\* ytDlpMetadata resolves
MetadataResolved(o) ==
    /\ dl[o].pc = "validating"
    /\ \E md \in MetaDurations, title \in Titles, spawnOk \in BOOLEAN :
         LET d == AfterMetadata(dl[o], md, title, clock, spawnOk)
         IN  /\ d.pc = "streaming" => CanCreateEmitter(progressEmitters)
                                       \/ progressEmitters[d.clientKey] # 0
             /\ dl' = [dl EXCEPT ![o] = d]
             /\ progressEmitters' = IF d.pc = "streaming"
                                    THEN getEmitter(progressEmitters, d.clientKey)
                                    ELSE progressEmitters
    /\ UNCHANGED <<downloading, error, calls, fs, clock, listeners, published, sub>>

\* ytDlpMetadata rejects
MetadataRejected(o) ==
    /\ dl[o].pc = "validating"
    /\ LET w == CatchBlock(Failure(dl[o], "metadata", <<>>, 0), fs)
       IN  dl' = [dl EXCEPT ![o] = w.d] /\ fs' = w.fs
    /\ UNCHANGED <<downloading, error, calls, clock, progressEmitters, listeners, published, sub>>

(***************************************************************************)
(* The mp4 branch: download to a temp file, then stream the file.          *)
(***************************************************************************)
\* faulty variant of cleanupTemp: unlinkSync without the existsSync test
cleanupTempUnguarded(d, fsys) ==
    [d |-> [d EXCEPT !.unlinks = @ + 1],
     fs |-> unlinkSync(fsys, d.tempFilePath)]

\* cleanupTemp
cleanupTemp(d, fsys) ==
    [d |-> [d EXCEPT !.unlinks = @ + UnlinkCalls(fsys, d.tempFilePath)],
     fs |-> UnlinkIfExists(fsys, d.tempFilePath)]

\* faulty variant of AfterDownload: the Content-Length header is not set
AfterDownloadNoLength(d, fsys) ==
    IF ~existsSync(fsys, d.tempFilePath)
    THEN CatchBlock(Failure(d, "missing", <<>>, 0), fsys)
    ELSE [d |-> [d EXCEPT !.disposition = "attachment",
                          !.contentType = "video/mp4",
                          !.readStream = "open",
                          !.closeListeners = Append(@, "mp4StreamClose"),
                          !.settled = TRUE,
                          !.pc = "delivering"],
          fs |-> fsys]

\* the handler after the download promise resolved
AfterDownload(d, fsys) ==
    IF ~existsSync(fsys, d.tempFilePath)
    THEN CatchBlock(Failure(d, "missing", <<>>, 0), fsys)
    ELSE [d |-> [d EXCEPT !.disposition = "attachment",
                          !.contentType = "video/mp4",
                          !.contentLength = fsys[d.tempFilePath],
                          !.readStream = "open",
                          !.closeListeners = Append(@, "mp4StreamClose"),
                          !.settled = TRUE,
                          !.pc = "delivering"],
          fs |-> fsys]

\* faulty variant of Reject: a failed fetch is started once more
RejectRetries(d, fsys) ==
    IF d.settled THEN [d |-> d, fs |-> fsys]
    ELSE IF d.spawned.fetch < 2
    THEN [d |-> [d EXCEPT !.dlProc = "running", !.dlClosed = FALSE,
                          !.spawned = [@ EXCEPT !.fetch = @ + 1]],
          fs |-> fsys]
    ELSE CatchBlock(d, fsys)

\* reject(e) of the download promise: the first settlement runs the catch block
Reject(d, fsys) ==
    IF d.settled THEN [d |-> d, fs |-> fsys] ELSE CatchBlock(d, fsys)

\* resolve() of the download promise
Resolve(d, fsys) ==
    IF d.settled THEN [d |-> d, fs |-> fsys] ELSE AfterDownload(d, fsys)

\* faulty variant of OnDlClose: abortedDuringDownload is not looked at
OnDlCloseIgnoresAbort(d, fsys, code, stderr) ==
    IF code # 0
    THEN Reject(Failure(d, "failed", LastLines(stderr), Len(stderr)), fsys)
    ELSE Resolve(d, fsys)

\* dlProc.on('close', code => ...); code 0 is the only success; stderr is
\* the diagnostics collected so far, as a list of lines
OnDlClose(d, fsys, code, stderr) ==
    IF d.abortedDuringDownload
    THEN LET c == cleanupTemp(d, fsys)
         IN  Reject(Failure(c.d, "aborted", <<>>, 0), c.fs)
    ELSE IF code # 0
    THEN Reject(Failure(d, "failed", LastLines(stderr), Len(stderr)), fsys)
    ELSE Resolve(d, fsys)

\* the fetch tool writes (more of) the file
DlWrite(o) ==
    /\ dl[o].dlProc = "running"
    /\ LET p == dl[o].tempFilePath
           size == IF fs[p] = <<>> THEN 0 ELSE fs[p][1]
       IN  /\ size < MaxFileSize
           /\ fs' = [fs EXCEPT ![p] = <<size + 1>>]
    /\ UNCHANGED <<downloading, error, calls, dl, clock, progressEmitters, listeners, published, sub>>

\* the fetch tool exits on its own
DlExit(o) ==
    /\ dl[o].dlProc = "running"
    /\ \E code \in {0, 1} :
         dl' = [dl EXCEPT ![o] = [@ EXCEPT !.dlProc = "exited", !.dlCode = code]]
    /\ UNCHANGED <<downloading, error, calls, fs, clock, progressEmitters, listeners, published, sub>>

\* dlProc.on('error', e => reject(e)): the tool could not be spawned
DlError(o) ==
    /\ dl[o].dlProc = "spawnfail"
    /\ LET w == Reject(Failure([dl[o] EXCEPT !.dlProc = "failed"], "spawn", <<>>, 0), fs)
       IN  dl' = [dl EXCEPT ![o] = w.d] /\ fs' = w.fs
    /\ UNCHANGED <<downloading, error, calls, clock, progressEmitters, listeners, published, sub>>

\* the 'close' event of dlProc
DlClose(o) ==
    /\ dl[o].dlProc \in {"exited", "killed", "failed"}
    /\ ~dl[o].dlClosed
    /\ \E n \in 0..MaxStderr :
         LET code == IF dl[o].dlProc = "exited" THEN dl[o].dlCode ELSE -1
             stderr == [i \in 1..n |-> i]
             w == OnDlClose([dl[o] EXCEPT !.dlClosed = TRUE], fs, code, stderr)
         IN  dl' = [dl EXCEPT ![o] = w.d] /\ fs' = w.fs
    /\ UNCHANGED <<downloading, error, calls, clock, progressEmitters, listeners, published, sub>>

\* readStream.pipe(res): a chunk of the file is written to the response; a
\* response whose socket is gone refuses it and the stream waits for 'drain'
ReadData(o) ==
    /\ dl[o].readStream = "open"
    /\ ~dl[o].headersSent
    /\ dl' = [dl EXCEPT ![o] =
                IF dl[o].conn = "open" THEN [@ EXCEPT !.headersSent = TRUE]
                ELSE [@ EXCEPT !.readStream = "stalled"]]
    /\ UNCHANGED <<downloading, error, calls, fs, clock, progressEmitters, listeners, published, sub>>

\* readStream.on('end'), and the pipe ends the response
ReadEnd(o) ==
    /\ dl[o].readStream = "open"
    /\ dl[o].headersSent
    /\ dl[o].conn = "open"
    /\ LET w == cleanupTemp([dl[o] EXCEPT !.readStream = "ended",
                                          !.resFinished = TRUE], fs)
       IN  dl' = [dl EXCEPT ![o] = w.d] /\ fs' = w.fs
    /\ UNCHANGED <<downloading, error, calls, clock, progressEmitters, listeners, published, sub>>

\* readStream.on('error')
ReadError(o) ==
    /\ dl[o].readStream = "open"
    /\ LET w == cleanupTemp([dl[o] EXCEPT !.readStream = "errored"], fs)
       IN  dl' = [dl EXCEPT ![o] = w.d] /\ fs' = w.fs
    /\ UNCHANGED <<downloading, error, calls, clock, progressEmitters, listeners, published, sub>>

(***************************************************************************)
(* The listeners of req 'close'.                                           *)
(***************************************************************************)
\* onClientCloseWhileDownloading
onClientCloseWhileDownloading(d) ==
    IF d.dlProc # "none"
    THEN [d EXCEPT !.abortedDuringDownload = TRUE,
                   !.dlProc = KillState(@),
                   !.signalled = KillSignals(@, "dlProc", d.dlProc, "SIGKILL")]
    ELSE d

\* req.on('close') of the mp4 branch: readStream.destroy(); cleanupTemp()
Mp4StreamClose(d, fsys) ==
    cleanupTemp([d EXCEPT !.readStream =
                    IF @ \in {"open", "stalled"} THEN "destroyed" ELSE @], fsys)

\* the condition of req.on('close') of the mp3 branch
Mp3CloseFires(d) == d.reqAborted \/ d.resFinished

\* req.on('close') of the mp3 branch, apart from its sendProgress
Mp3Close(d) ==
    IF Mp3CloseFires(d)
    THEN [d EXCEPT !.ytProc = KillState(@),
                   !.signalled = KillSignals(@, "ytProc", d.ytProc, "SIGKILL")]
    ELSE d

Has(d, name) == name \in Range(d.closeListeners)

\* req.emit('close'): the registered listeners in their order
EmitClose(o, d0) ==
    LET d1 == IF Has(d0, "mp3Close") THEN Mp3Close(d0) ELSE d0
        d2 == IF Has(d0, "onClientCloseWhileDownloading")
              THEN onClientCloseWhileDownloading(d1) ELSE d1
        w  == IF Has(d0, "mp4StreamClose") THEN Mp4StreamClose(d2, fs)
              ELSE [d |-> d2, fs |-> fs]
    IN  /\ fs' = w.fs
        /\ IF Has(d0, "mp3Close") /\ Mp3CloseFires(d0)
           THEN /\ dl' = [dl EXCEPT ![o] = [w.d EXCEPT !.sent = @ + 1]]
                /\ sendProgress(d0.clientKey, Payload("aborted", Absent, <<>>))
           ELSE /\ dl' = [dl EXCEPT ![o] = w.d]
                /\ NoProgress
        /\ UNCHANGED <<downloading, error, calls, clock, progressEmitters, listeners>>

\* the client's socket closes before the response has finished
ClientDisconnect(o) ==
    /\ dl[o].pc # "idle"
    /\ dl[o].conn = "open"
    /\ ~dl[o].closeEmitted
    /\ EmitClose(o, [dl[o] EXCEPT !.conn = "closed", !.closeEmitted = TRUE,
                                  !.closedIn = dl[o].pc, !.reqAborted = TRUE])

\* the response has been written out ('finish'): the request is closed
FinishClose(o) ==
    /\ dl[o].resFinished
    /\ dl[o].conn = "open"
    /\ ~dl[o].closeEmitted
    /\ EmitClose(o, [dl[o] EXCEPT !.closeEmitted = TRUE, !.closedIn = dl[o].pc])

(***************************************************************************)
(* The mp3 branch: yt-dlp | ffmpeg | response.                             *)
(***************************************************************************)
Min(a, b) == IF a <= b THEN a ELSE b

\* toSeconds(tm), tm given as its parsed parts; arithmetic on NaN gives NaN
toSeconds(tm) ==
    IF tm = <<>> THEN Num(0)
    ELSE IF Len(tm) = 3
         THEN IF \E i \in 1..3 : tm[i] = <<>> THEN NaN
              ELSE Num(tm[1][1] * 3600 + tm[2][1] * 60 + tm[3][1])
    ELSE Num(0)

\* duration ? Math.min(100, Math.floor((seconds / duration) * 100)) : null;
\* Math.floor and Math.min of NaN are NaN
Percent(seconds, duration) ==
    IF duration # 0
    THEN IF seconds = NaN THEN NaN
         ELSE Num(Min(100, (seconds[2] * 100) \div duration))
    ELSE Null

\* ytProc exits on its own (its exit is not listened to)
YtExit(o) ==
    /\ dl[o].ytProc = "running"
    /\ \E code \in {0, 1} :
         dl' = [dl EXCEPT ![o] = [@ EXCEPT !.ytProc = "exited", !.ytCode = code]]
    /\ UNCHANGED <<downloading, error, calls, fs, clock, progressEmitters, listeners, published, sub>>

\* ytProc.on('error'): logged only
YtError(o) ==
    /\ dl[o].ytProc = "spawnfail"
    /\ dl' = [dl EXCEPT ![o] = [@ EXCEPT !.ytProc = "failed"]]
    /\ UNCHANGED <<downloading, error, calls, fs, clock, progressEmitters, listeners, published, sub>>

\* faulty variant of FfStart: the 'starting' event is not published
FfStartSilent(o) ==
    /\ dl[o].ff = "pending"
    /\ dl' = [dl EXCEPT ![o] = [@ EXCEPT !.ff = "running"]]
    /\ UNCHANGED <<downloading, error, calls, fs, clock, progressEmitters, listeners, published, sub>>

\* ffmpeg 'start'
FfStart(o) ==
    /\ dl[o].ff = "pending"
    /\ dl' = [dl EXCEPT ![o] = [@ EXCEPT !.ff = "running", !.sent = @ + 1]]
    /\ sendProgress(dl[o].clientKey, Payload("starting", Num(0), <<>>))
    /\ UNCHANGED <<downloading, error, calls, fs, clock, progressEmitters, listeners>>

\* ff.pipe(res): the first chunk of ffmpeg's output is written to the
\* response; headersAtBody keeps what res.headersSent was at that point
FfData(o) ==
    /\ dl[o].ff = "running"
    /\ ~dl[o].bodyStarted
    /\ ~dl[o].resFinished
    /\ dl' = [dl EXCEPT ![o] = [@ EXCEPT !.bodyStarted = TRUE,
                                         !.headersAtBody = dl[o].headersSent,
                                         !.headersSent = TRUE]]
    /\ UNCHANGED <<downloading, error, calls, fs, clock, progressEmitters, listeners, published, sub>>

\* ffmpeg 'progress'
FfProgress(o) ==
    /\ dl[o].ff = "running"
    /\ dl[o].nprogress < MaxProgress
    /\ \E tm \in Timemarks :
         sendProgress(dl[o].clientKey,
                      Payload("converting", Percent(toSeconds(tm), dl[o].duration), tm))
    /\ dl' = [dl EXCEPT ![o] = [@ EXCEPT !.nprogress = @ + 1, !.sent = @ + 1]]
    /\ UNCHANGED <<downloading, error, calls, fs, clock, progressEmitters, listeners>>

\* faulty variant of OnFfError: the upstream yt-dlp is not killed
OnFfErrorNoKill(d) ==
    LET d1 == [d EXCEPT !.ff = "errored"]
    IN  IF ~d1.headersSent THEN Json(d1, 500) ELSE [d1 EXCEPT !.resFinished = TRUE]

\* faulty variant of OnFfError: the headersSent test is lost
OnFfErrorAlwaysJson(d) ==
    Json([d EXCEPT !.ytProc = KillState(@),
                   !.signalled = KillSignals(@, "ytProc", d.ytProc, "SIGTERM"),
                   !.ff = "errored"], 500)

\* ffmpeg 'error', apart from its sendProgress
OnFfError(d) ==
    LET d1 == [d EXCEPT !.ytProc = KillState(@),
                        !.signalled = KillSignals(@, "ytProc", d.ytProc, "SIGTERM"),
                        !.ff = "errored"]
    IN  IF ~d1.headersSent THEN Json(d1, 500) ELSE [d1 EXCEPT !.resFinished = TRUE]

FfError(o) ==
    /\ dl[o].ff \in {"pending", "running"}
    /\ dl' = [dl EXCEPT ![o] = [OnFfError(@) EXCEPT !.sent = @ + 1]]
    /\ sendProgress(dl[o].clientKey, Payload("error", Absent, <<>>))
    /\ UNCHANGED <<downloading, error, calls, fs, clock, progressEmitters, listeners>>

\* ffmpeg 'end'
FfEnd(o) ==
    /\ dl[o].ff = "running"
    /\ dl' = [dl EXCEPT ![o] = [@ EXCEPT !.ff = "ended", !.sent = @ + 1]]
    /\ sendProgress(dl[o].clientKey, Payload("done", Num(100), <<>>))
    /\ UNCHANGED <<downloading, error, calls, fs, clock, progressEmitters, listeners>>

\* ff.pipe(res, { end: true }): ffmpeg's output ended, the pipe ends the response
PipeEnd(o) ==
    /\ dl[o].ff \in {"running", "ended", "errored"}
    /\ ~dl[o].resFinished
    /\ dl' = [dl EXCEPT ![o] = [@ EXCEPT !.resFinished = TRUE]]
    /\ UNCHANGED <<downloading, error, calls, fs, clock, progressEmitters, listeners, published, sub>>

(***************************************************************************)
(* The progress route (SSE).                                               *)
(***************************************************************************)
SubKeys == {<<"abc", "mp3">>, <<"zz", "k">>}

Remove(seq, x) == SelectSeq(seq, LAMBDA y : y # x)

\* app.get('/api/progress/:key')
Subscribe(s) ==
    /\ sub[s].state = "idle"
    /\ \E key \in SubKeys :
         /\ progressEmitters[key] # 0 \/ CanCreateEmitter(progressEmitters)
         /\ LET map == getEmitter(progressEmitters, key)
                emitter == map[key]
            IN  /\ progressEmitters' = map
                /\ listeners' = [listeners EXCEPT ![emitter] = Append(@, s)]
                /\ sub' = [sub EXCEPT ![s] =
                             [@ EXCEPT !.state = "open", !.key = key,
                                       !.emitter = emitter,
                                       !.joinedAt = Len(published[key]),
                                       !.before = {o \in Ops : dl[o].pc = "idle"},
                                       !.keepAlive = TRUE]]
    /\ UNCHANGED <<downloading, error, calls, dl, fs, clock, published>>

\* the subscription after its connection closed: the timer is cleared; the
\* response is gone, and `received` and `beats` restart empty to show any
\* later write
SubClosed(r) ==
    [InitSub EXCEPT !.state = "closed", !.key = r.key,
                    !.leftAt = Len(published[r.key])]

\* the setInterval callback of a subscription: res.write(':\n\n')
Heartbeat(s) ==
    /\ sub[s].keepAlive
    /\ sub[s].beats < MaxBeats
    /\ sub' = [sub EXCEPT ![s] = [@ EXCEPT !.beats = @ + 1]]
    /\ UNCHANGED <<downloading, error, calls, dl, fs, clock, progressEmitters, listeners, published>>

\* faulty variant of the close handler: the listener stays attached and the
\* timer keeps running
SubCloseLeavesAll(s) ==
    /\ sub[s].state = "open"
    /\ sub' = [sub EXCEPT ![s] = [SubClosed(@) EXCEPT !.keepAlive = TRUE]]
    /\ UNCHANGED <<downloading, error, calls, dl, fs, clock, progressEmitters, listeners, published>>

\* faulty variant of the close handler: the listenerCount test is lost, the
\* entry is deleted whoever else still listens
SubCloseAlwaysDeletes(s) ==
    /\ sub[s].state = "open"
    /\ LET emitter == sub[s].emitter
           key == sub[s].key
           left == Remove(listeners[emitter], s)
       IN  /\ listeners' = [listeners EXCEPT ![emitter] = left]
           /\ progressEmitters' = [progressEmitters EXCEPT ![key] = 0]
           /\ sub' = [sub EXCEPT ![s] = SubClosed(@)]
    /\ UNCHANGED <<downloading, error, calls, dl, fs, clock, published>>

\* req.on('close') of the progress route
SubClose(s) ==
    /\ sub[s].state = "open"
    /\ LET emitter == sub[s].emitter
           key == sub[s].key
           left == Remove(listeners[emitter], s)
       IN  /\ listeners' = [listeners EXCEPT ![emitter] = left]
           /\ progressEmitters' = IF Len(left) = 0
                                  THEN [progressEmitters EXCEPT ![key] = 0]
                                  ELSE progressEmitters
           /\ sub' = [sub EXCEPT ![s] = SubClosed(@)]
    /\ UNCHANGED <<downloading, error, calls, dl, fs, clock, published>>

(***************************************************************************)
(* Specifications.                                                         *)
(***************************************************************************)
DownloadNext(o) ==
    \/ Request(o)
    \/ MetadataResolved(o)
    \/ MetadataRejected(o)
    \/ DlWrite(o)
    \/ DlExit(o)
    \/ DlError(o)
    \/ DlClose(o)
    \/ ReadData(o)
    \/ ReadEnd(o)
    \/ ReadError(o)
    \/ ClientDisconnect(o)
    \/ FinishClose(o)
    \/ YtExit(o)
    \/ YtError(o)
    \/ FfStart(o)
    \/ FfProgress(o)
    \/ FfError(o)
    \/ FfEnd(o)
    \/ PipeEnd(o)

\* the download route alone, one invocation
Next == \E o \in SoloOps : DownloadNext(o)

Spec == Init /\ [][Next]_vars

\* the progress route together with the callbacks of a download that publish
ProgressNext ==
    \/ \E o \in SoloOps : \/ Request(o)
                          \/ MetadataResolved(o)
                          \/ FfStart(o)
                          \/ FfProgress(o)
                          \/ FfError(o)
                          \/ FfEnd(o)
                          \/ ClientDisconnect(o)
    \/ \E s \in Subs : Subscribe(s)
    \/ \E s \in Subs : SubClose(s)

SpecProgress == Init /\ [][ProgressNext]_vars

\* the same with the keep-alive timers
HeartbeatNext ==
    \/ ProgressNext
    \/ \E s \in Subs : Heartbeat(s)

SpecHeartbeat == Init /\ [][HeartbeatNext]_vars

\* the audio path of the download route with the bytes of the body
AudioNext ==
    \E o \in SoloOps :
        \/ Request(o)
        \/ MetadataResolved(o)
        \/ YtExit(o)
        \/ YtError(o)
        \/ FfStart(o)
        \/ FfData(o)
        \/ FfProgress(o)
        \/ FfError(o)
        \/ FfEnd(o)
        \/ PipeEnd(o)
        \/ ClientDisconnect(o)
        \/ FinishClose(o)

SpecAudio == Init /\ [][AudioNext]_vars

\* concurrent audio downloads that run to their end, and subscribers
CrossTalkNext ==
    \/ \E o \in Ops : \/ Request(o)
                      \/ MetadataResolved(o)
                      \/ FfStart(o)
                      \/ FfEnd(o)
    \/ \E s \in Subs : Subscribe(s)

SpecCrossTalk == Init /\ [][CrossTalkNext]_vars

\* the same with subscribers that leave
RegistryNext ==
    \/ CrossTalkNext
    \/ \E s \in Subs : SubClose(s)

SpecRegistry == Init /\ [][RegistryNext]_vars

\* both routes, every callback
AllNext ==
    \/ \E o \in SoloOps : DownloadNext(o)
    \/ \E s \in Subs : Subscribe(s)
    \/ \E s \in Subs : SubClose(s)

SpecAll == Init /\ [][AllNext]_vars

\* the clock advances between two callbacks
Tick ==
    /\ clock < MaxClock
    /\ clock' = clock + 1
    /\ UNCHANGED <<downloading, error, calls, dl, fs, progressEmitters, listeners, published, sub>>

\* the video path of the download route, invocations running concurrently
VideoNext(o) ==
    \/ Request(o)
    \/ MetadataResolved(o)
    \/ DlWrite(o)
    \/ DlExit(o)
    \/ DlError(o)
    \/ DlClose(o)
    \/ ReadData(o)
    \/ ReadEnd(o)
    \/ ReadError(o)
    \/ ClientDisconnect(o)

ConcurrentNext ==
    \/ \E o \in Ops : VideoNext(o)
    \/ Tick

SpecConcurrent == Init /\ [][ConcurrentNext]_vars

(***************************************************************************)
(* Vocabulary of the properties.                                           *)
(***************************************************************************)
\* the temp file of invocation o is on disk
TempOnDisk(o) ==
    dl[o].tempFilePath # NullPath /\ existsSync(fs, dl[o].tempFilePath)

\* a subprocess of invocation o is alive
ProcRunning(o) ==
    \/ dl[o].ytProc = "running"
    \/ dl[o].dlProc = "running"
    \/ dl[o].ff \in {"pending", "running"}

\* invocation o has started and none of its callbacks can run any more
Quiescent(o) == dl[o].pc # "idle" /\ ~ENABLED DownloadNext(o)

\* one of 'end', 'error' (readStream) or 'close' (req) has been handled
\* since the temp file was opened for reading
ReadEventSeen(o) == dl[o].readStream \in {"ended", "errored", "destroyed"}

Last(seq) == seq[Len(seq)]

Done == Payload("done", Num(100), <<>>)

(***************************************************************************)
(* Properties.                                                             *)
(***************************************************************************)
\* C1: once the temp file is open for reading, whatever the order of the
\* read stream's 'end' and 'error' and the request's 'close', the file is
\* gone after the first of them and unlinkSync has run exactly once.
C1_RemovedExactlyOnce ==
    \A o \in Ops :
        dl[o].readStream # "none" =>
            /\ dl[o].unlinks <= 1
            /\ ReadEventSeen(o) => ~TempOnDisk(o) /\ dl[o].unlinks = 1

C1_Witness ==
    \E o \in Ops :
        /\ dl[o].readStream = "errored"
        /\ dl[o].closedIn = "delivering"
        /\ dl[o].unlinks = 1

\* C2: a video download has at most one temp file, and when the invocation
\* has come to rest, on whatever path, its temp file is not on disk.
C2_NeverLeftBehind ==
    /\ Cardinality({p \in Paths : existsSync(fs, p)}) <= Cardinality(Ops)
    /\ \A o \in Ops : Quiescent(o) => ~TempOnDisk(o)

\* C3: when the client's connection closes after the operation started a
\* subprocess, every subprocess of the operation still alive gets a signal.
C3_DisconnectSignalsAll ==
    \A o \in Ops :
        (dl[o].reqAborted /\ dl[o].closedIn \in {"streaming", "materializing"}) =>
            /\ dl[o].ytProc # "running"
            /\ dl[o].dlProc # "running"
            /\ dl[o].ff \in {"pending", "running"} =>
                   \E sig \in {"SIGTERM", "SIGKILL"} : <<"ffmpeg", sig>> \in dl[o].signalled

\* C4: a connection closed while the metadata lookup is pending leaves, once
\* the invocation has come to rest, no subprocess alive and no temp file.
C4_CloseWhileValidating ==
    \A o \in Ops :
        (dl[o].closedIn = "validating" /\ Quiescent(o)) =>
            ~ProcRunning(o) /\ ~TempOnDisk(o)

\* C5: an invocation that has come to rest is in a terminal state: its
\* response is ended, its subprocesses are gone, its file and read stream are
\* released.
C5_RestIsTerminal ==
    \A o \in Ops :
        Quiescent(o) =>
            /\ dl[o].resFinished \/ dl[o].conn = "closed"
            /\ ~ProcRunning(o)
            /\ dl[o].readStream \notin {"open", "stalled"}
            /\ ~TempOnDisk(o)

\* C7: after an audio download whose transcode ended and whose response
\* finished with the client still connected, the last event published under
\* the operation's key is {status: done, progress: 100}.
C7_DoneIsLast ==
    \A o \in Ops :
        (/\ dl[o].format = "mp3"
         /\ dl[o].ff = "ended"
         /\ dl[o].closeEmitted
         /\ ~dl[o].reqAborted) =>
            /\ published[dl[o].clientKey] # <<>>
            /\ Last(published[dl[o].clientKey]) = Done

\* C8: a request with a format other than mp3 and mp4 spawns no subprocess
\* of any kind and is answered with status 400.
C8_InvalidFormatNoSpawn ==
    \A o \in Ops :
        (dl[o].pc # "idle" /\ dl[o].format \notin {"mp3", "mp4"}) =>
            /\ dl[o].spawned = [meta |-> 0, fetch |-> 0, ffmpeg |-> 0]
            /\ dl[o].pc = "returned" => dl[o].statusCode = 400

\* what a request rejected for its duration looks like
RejectedBeforeWork(o) ==
    /\ dl[o].pc = "returned"
    /\ dl[o].statusCode = 400
    /\ dl[o].jsonBody
    /\ dl[o].spawned.fetch = 0
    /\ dl[o].spawned.ffmpeg = 0
    /\ dl[o].contentType = ""
    /\ dl[o].contentLength = <<>>
    /\ dl[o].tempFilePath = NullPath

\* C9 as stated: a metadata duration above 3600 seconds is rejected with 400
\* before any fetch or transcode process, header or temp path.
C9_Original ==
    \A o \in Ops :
        (dl[o].metaDuration # <<>> /\ dl[o].metaDuration[1] > MaxDuration * 10) =>
            RejectedBeforeWork(o)

\* C9 (amended): a metadata duration whose whole seconds exceed 3600 is
\* rejected with 400 before any fetch or transcode process, success header
\* or temp path.
C9_TooLongRejected ==
    \A o \in Ops :
        (dl[o].metaDuration # <<>> /\ dl[o].metaDuration[1] \div 10 > MaxDuration) =>
            RejectedBeforeWork(o)

C9_Witness ==
    \E o \in Ops :
        /\ dl[o].metaDuration = <<36010>>
        /\ dl[o].statusCode = 400
        /\ dl[o].format = "mp4"

C6_ReceivedSinceJoin ==
    \A s \in Subs :
        sub[s].state = "open" =>
            LET pub == published[sub[s].key]
                n == Len(pub) - sub[s].joinedAt
            IN  /\ n >= 0
                /\ sub[s].received = [i \in 1..n |-> JSONstringify(pub[sub[s].joinedAt + i])]

C6_Witness ==
    \E s, t \in Subs :
        /\ s # t
        /\ sub[s].state = "open" /\ sub[t].state = "open"
        /\ sub[s].key = sub[t].key
        /\ sub[s].joinedAt = 0 /\ Len(sub[s].received) >= 2
        /\ sub[t].joinedAt >= 1 /\ Len(sub[t].received) >= 1

\* C11: once the response headers are sent, after a transcoder error or a
\* read error of the temp file the server has ended the response.
C11_ErrorEndsResponse ==
    \A o \in Ops :
        (dl[o].headersSent /\ (dl[o].ff = "errored" \/ dl[o].readStream = "errored")) =>
            dl[o].resFinished

\* C12: when the fetch subprocess has exited with a non-zero status, the
\* operation is not reported as successful: no 'done' event is published
\* under its key, and the video path has failed with nothing delivered.
C12_FetchFailureFails ==
    \A o \in Ops :
        /\ (dl[o].ytProc = "exited" /\ dl[o].ytCode # 0) =>
               Done \notin Range(published[dl[o].clientKey])
        /\ (dl[o].dlProc = "exited" /\ dl[o].dlCode # 0 /\ dl[o].dlClosed) =>
               /\ dl[o].pc = "returned"
               /\ dl[o].statusCode = 500
               /\ dl[o].readStream = "none"

\* C13: once the failed spawn of the fetch tool has been reported ('error'),
\* in either branch the response carries status 500 and the tool has been
\* spawned only once.
C13_SpawnFailureIs500 ==
    \A o \in Ops :
        (dl[o].ytProc = "failed" \/ dl[o].dlProc = "failed") =>
            /\ dl[o].statusCode = 500
            /\ dl[o].jsonBody
            /\ dl[o].spawned.fetch = 1

\* C14: after a download was aborted by the client's disconnect, no error
\* response (status 500, JSON body) is written to the closed connection and
\* no 'error' event follows the abort under the operation's key.
C14_AbortIsSilent ==
    \A o \in Ops :
        /\ (dl[o].reqAborted /\ dl[o].closedIn = "materializing") =>
               ~dl[o].jsonBody /\ dl[o].statusCode # 500
        /\ (dl[o].reqAborted /\ dl[o].closedIn = "streaming") =>
               LET pub == published[dl[o].clientKey]
               IN  \A i, j \in DOMAIN pub :
                       (i < j /\ pub[i].status = "aborted") => pub[j].status # "error"

ErrorEvent == Payload("error", Absent, <<>>)

\* C15: once the transcoder has failed, an 'error' event has been published
\* under the operation's key, the response is ended, and the fetch
\* subprocess is not running: if it was, it has been sent a signal.
C15_TranscodeFailure ==
    \A o \in Ops :
        dl[o].ff = "errored" =>
            /\ ErrorEvent \in Range(published[dl[o].clientKey])
            /\ dl[o].resFinished
            /\ dl[o].ytProc \in {"killed", "exited", "failed", "spawnfail"}
            /\ dl[o].ytProc = "killed" =>
                   \E sig \in {"SIGTERM", "SIGKILL"} : <<"ytProc", sig>> \in dl[o].signalled

C15_Witness ==
    \E o \in Ops :
        /\ dl[o].ff = "errored"
        /\ dl[o].signalled = {<<"ytProc", "SIGTERM">>}
        /\ ~dl[o].closeEmitted

\* a subscription to key k is connected
Subscribed(k) == \E s \in Subs : sub[s].state = "open" /\ sub[s].key = k

\* C16: once the operation producing under a key has come to rest and no
\* subscription to the key is connected, the registry has no entry for it.
C16_EntryCollected ==
    \A o \in Ops :
        (Quiescent(o) /\ dl[o].clientKey # NoKey /\ ~Subscribed(dl[o].clientKey)) =>
            progressEmitters[dl[o].clientKey] = 0

\* C17: while the operation producing under a key is in flight, the registry
\* keeps the entry of that key.
C17_EntryKeptInFlight ==
    \A o \in Ops :
        (dl[o].pc = "streaming" /\ dl[o].ff \in {"pending", "running"}) =>
            progressEmitters[dl[o].clientKey] # 0


\* a step in which sendProgress(k, ...) is called
Publishes(k) == published'[k] # published[k]

\* a step in which subscription s connects to key k / disconnects from it
Connects(s, k) == sub[s].state = "idle" /\ sub'[s].state = "open" /\ sub'[s].key = k
Disconnects(s, k) == sub[s].state = "open" /\ sub'[s].state = "closed" /\ sub[s].key = k

\* a step in which the audio branch of a download with key k starts
StartsAudio(o, k) ==
    dl[o].pc = "validating" /\ dl'[o].pc = "streaming" /\ dl'[o].clientKey = k

Terminal == {"done", "error", "aborted"}

\* subscription s was connected to the key of download o before o started,
\* and is still connected
SubscribedBefore(s, o) ==
    /\ sub[s].state = "open"
    /\ o \in sub[s].before
    /\ sub[s].key = dl[o].clientKey

\* C19: for the audio and for the video strategy, a subscriber connected to
\* the operation's key before the download started has, once the operation
\* has ended, received at least one event, the last of them a terminal one
C19_SubscriberGetsEvents ==
    \A o \in Ops : \A s \in Subs :
        (SubscribedBefore(s, o) /\ dl[o].spawned.fetch = 1 /\ Quiescent(o)) =>
            /\ sub[s].received # <<>>
            /\ Last(sub[s].received).status \in Terminal

\* the audio half of C19 alone
C19_AudioHalf ==
    \A o \in Ops : \A s \in Subs :
        (SubscribedBefore(s, o) /\ dl[o].spawned.fetch = 1 /\ Quiescent(o)
           /\ dl[o].format = "mp3") =>
            /\ sub[s].received # <<>>
            /\ Last(sub[s].received).status \in Terminal


\* subscription s connected after the 'starting' event of its key was
\* published and before any terminal event was: the download was in flight
JoinedInFlight(s) ==
    LET pub == published[sub[s].key]
    IN  /\ sub[s].state = "open"
        /\ sub[s].joinedAt >= 1
        /\ pub[1].status = "starting"
        /\ \A i \in 1..sub[s].joinedAt : pub[i].status \notin Terminal

\* C20: a subscriber that connected to key K while the operation for K was in
\* flight, after the operation's 'starting' event had been published, has
\* received a 'starting' event by the time the operation has ended
C20_StartingResent ==
    \A o \in Ops : \A s \in Subs :
        (JoinedInFlight(s) /\ sub[s].key = dl[o].clientKey /\ Quiescent(o)) =>
            \E i \in DOMAIN sub[s].received : sub[s].received[i].status = "starting"


\* invocation o holds a temp file path it has not finished with
HoldsTemp(o) ==
    \/ dl[o].pc = "materializing"
    \/ dl[o].pc = "delivering" /\ dl[o].readStream = "open"

\* C21: two video downloads in flight at the same time use different
\* temporary file paths, also with the same title and the same clock reading
C21_DistinctTempPaths ==
    \A o, q \in Ops :
        (o # q /\ HoldsTemp(o) /\ HoldsTemp(q)) =>
            dl[o].tempFilePath # dl[q].tempFilePath


\* the 'converting' events invocation o has published, as written to a
\* subscriber
Converting(o) ==
    IF dl[o].clientKey = NoKey THEN {}
    ELSE {JSONstringify(e) : e \in {x \in Range(published[dl[o].clientKey]) :
                                        x.status = "converting"}}

\* C22: every 'converting' event carries null, exactly when the total
\* duration is unknown (0), or an integer in 0..100, whatever timemark the
\* transcoder reported
C22_PercentInRange ==
    \A o \in Ops : \A e \in Converting(o) :
        IF dl[o].duration = 0 THEN e.progress = Null
        ELSE e.progress[1] = "num" /\ e.progress[2] \in 0..100

\* the part of C22 about positions past the known duration
C22_ClampedAbove ==
    \A o \in Ops : \A e \in Converting(o) :
        e.progress[1] = "num" => e.progress[2] <= 100


\* a step in which invocation o starts to deliver the file: headers set,
\* file opened for reading
BeginsDelivery(o) == dl[o].pc # "delivering" /\ dl'[o].pc = "delivering"

\* C23: in the video path delivery begins only if the fetch process exited
\* with status zero, no disconnect was observed during the download and the
\* file is present; a disconnect observed during the download of a started
\* fetch process gives the outcome Aborted, also with exit status zero; a
\* non-zero exit gives a failure carrying at most the last DiagLines lines of
\* the diagnostics
C23_DeliveryGate ==
    /\ [][\A o \in Ops :
            BeginsDelivery(o) =>
                /\ dl[o].dlProc = "exited" /\ dl[o].dlCode = 0
                /\ ~dl[o].abortedDuringDownload
                /\ existsSync(fs, dl[o].tempFilePath)]_vars
    /\ [](\A o \in Ops :
            (dl[o].closedIn = "materializing" /\ dl[o].dlClosed
               /\ dl[o].dlProc \in {"exited", "killed"}) =>
                /\ dl[o].failure.kind = "aborted"
                /\ dl[o].contentType = "" /\ dl[o].readStream = "none")
    /\ [](\A o \in Ops :
            (dl[o].dlProc = "exited" /\ dl[o].dlCode # 0 /\ dl[o].dlClosed
               /\ ~dl[o].abortedDuringDownload) =>
                LET f == dl[o].failure
                IN  /\ f.kind = "failed"
                    /\ Len(f.details) <= DiagLines
                    /\ \A i \in DOMAIN f.details :
                           f.details[i] = f.of - Len(f.details) + i)

\* the fetch process exited with status zero, the client disconnected before
\* its 'close' event, and the outcome was Aborted
C23_Witness ==
    \E o \in Ops :
        /\ dl[o].dlProc = "exited" /\ dl[o].dlCode = 0 /\ dl[o].dlClosed
        /\ dl[o].closedIn = "materializing"
        /\ dl[o].failure.kind = "aborted"


\* C24: no retries: one download invocation spawns at most one fetch process
\* and at most one transcoding process, whatever failures, exits and
\* disconnects occur
C24_NoRetries ==
    \A o \in Ops :
        /\ dl[o].spawned.fetch <= 1
        /\ dl[o].spawned.ffmpeg <= 1
        /\ dl[o].spawned.meta <= 1

\* a fetch failed, the handler has returned, and only one fetch process was
\* ever spawned
C24_Witness ==
    \E o \in Ops :
        /\ dl[o].failure.kind = "failed"
        /\ dl[o].pc = "returned"
        /\ dl[o].spawned.fetch = 1


\* a step in which the server side acts: a callback of the download route
\* runs, an event is published or a keep-alive comment is written
ServerStep ==
    \/ dl' # dl
    \/ published' # published
    \/ \E s \in Subs : sub'[s].beats > sub[s].beats

\* C25: no step of the server ends an open subscription, not even the
\* publication of a terminal event; once the subscriber's connection has
\* closed its listener is removed and its timer is cancelled, and no progress
\* event and no keep-alive comment is written to it
C25_OpenUntilClientLeaves ==
    /\ [][\A s \in Subs :
            (sub[s].state = "open" /\ ServerStep) => sub'[s].state = "open"]_vars
    /\ [](\A s \in Subs :
            sub[s].state = "closed" =>
                /\ sub[s].received = <<>>
                /\ sub[s].beats = 0
                /\ ~sub[s].keepAlive
                /\ \A e \in Emitters : s \notin Range(listeners[e]))

\* an event was published under the key of a subscription after it closed,
\* and another subscription of that key, still open after a terminal event,
\* received it and a keep-alive comment
C25_Witness ==
    \E s, t \in Subs :
        /\ sub[s].state = "closed"
        /\ Len(published[sub[s].key]) > sub[s].leftAt
        /\ sub[t].state = "open" /\ sub[t].key = sub[s].key
        /\ sub[t].received # <<>>
        /\ Last(sub[t].received).status \in Terminal
        /\ sub[t].beats > 0


RECURSIVE SentUnder(_, _)
\* the number of events the invocations in S have published, counting those
\* whose key is k
SentUnder(S, k) ==
    IF S = {} THEN 0
    ELSE LET o == CHOOSE x \in S : TRUE
         IN  (IF dl[o].clientKey = k THEN dl[o].sent ELSE 0) + SentUnder(S \ {o}, k)

\* C26: the events of a download are all published under one key, the
\* caller's key when the request has one and the key made of content id and
\* format otherwise; a subscriber of K receives the events published under K
\* and no others
C26_OneKeyPerOperation ==
    /\ \A o \in Ops :
           /\ dl[o].clientKey = NoKey => dl[o].sent = 0
           /\ dl[o].clientKey # NoKey =>
                  dl[o].clientKey = IF dl[o].queryKey # NoKey THEN dl[o].queryKey
                                    ELSE <<dl[o].id, dl[o].format>>
    /\ \A k \in Keys : Len(published[k]) = SentUnder(Ops, k)
    /\ \A s \in Subs :
           sub[s].state = "open" =>
               \A i \in DOMAIN sub[s].received :
                   sub[s].received[i] =
                       JSONstringify(published[sub[s].key][sub[s].joinedAt + i])

\* two downloads with different keys have both published, and a subscriber
\* of one of the keys has received events
C26_Witness ==
    \E o, q \in Ops : \E s \in Subs :
        /\ dl[o].clientKey # dl[q].clientKey
        /\ dl[o].sent >= 2 /\ dl[q].sent >= 2
        /\ dl[o].queryKey # NoKey /\ dl[q].queryKey = NoKey
        /\ sub[s].state = "open" /\ sub[s].key = dl[o].clientKey
        /\ Len(sub[s].received) = 2


\* C27: in the audio path the headers (content type, attachment file name)
\* are committed before the fetch and transcode processes are started and
\* before the first byte of the body is written
C27_HeadersFirst ==
    \A o \in Ops :
        /\ (dl[o].format = "mp3" /\ dl[o].spawned.fetch + dl[o].spawned.ffmpeg > 0) =>
               /\ dl[o].headersAtSpawn
               /\ dl[o].headersSent
               /\ dl[o].contentType = "audio/mpeg"
               /\ dl[o].disposition = "attachment"
        /\ dl[o].bodyStarted => dl[o].headersAtBody

\* body bytes of an audio download have been written
C27_Witness ==
    \E o \in Ops :
        dl[o].format = "mp3" /\ dl[o].bodyStarted /\ dl[o].ytProc = "running"


\* the metadata of invocation o has arrived and its format is a valid one
Validated(o) ==
    /\ dl[o].pc \notin {"idle", "validating"}
    /\ dl[o].failure.kind # "metadata"
    /\ dl[o].format \in {"mp3", "mp4"}

\* whole seconds of a metadata duration given in tenths; a missing one is 0
WholeSeconds(md) == IF md = <<>> THEN 0 ELSE (md[1] - (md[1] % 10)) \div 10

\* C28: the request is rejected exactly when the metadata duration rounded
\* down to whole seconds is greater than 3600: 3600.9 s and a missing duration
\* are accepted, 3601 s is rejected
C28_RejectedIffOverLimit ==
    \A o \in Ops :
        Validated(o) =>
            /\ (WholeSeconds(dl[o].metaDuration) > 3600) <=>
                   (dl[o].statusCode = 400 /\ dl[o].spawned.fetch = 0)
            /\ dl[o].metaDuration \in {<<>>, <<36009>>} => dl[o].spawned.fetch = 1
            /\ dl[o].metaDuration = <<36010>> => dl[o].pc = "returned"

\* a download whose duration is 3600.9 s was accepted and has started
C28_Witness ==
    \E o \in Ops :
        /\ dl[o].metaDuration = <<36009>>
        /\ dl[o].spawned.fetch = 1
        /\ dl[o].statusCode = 200


\* the open subscriptions of key k
OpenSubs(k) == {s \in Subs : sub[s].state = "open" /\ sub[s].key = k}

\* C29: under every interleaving of subscribe, unsubscribe, publish and
\* channel creation by concurrent downloads and subscribers, each connected
\* subscriber listens, once, on the channel the registry maps its key to, no
\* channel has any other listener, and a publish under a key is written to
\* all connected subscribers of the key
C29_RegistryConsistent ==
    /\ [](\A k \in Keys :
            /\ OpenSubs(k) # {} => progressEmitters[k] # 0
            /\ progressEmitters[k] # 0 =>
                   LET ls == listeners[progressEmitters[k]]
                   IN  /\ Range(ls) = OpenSubs(k)
                       /\ Len(ls) = Cardinality(OpenSubs(k)))
    /\ [](\A e \in Emitters :
            listeners[e] # <<>> => \E k \in Keys : progressEmitters[k] = e)
    /\ [][\A k \in Keys :
            Publishes(k) =>
                \A s \in OpenSubs(k) :
                    sub'[s].received =
                        Append(sub[s].received, JSONstringify(Last(published'[k])))]_vars

\* two concurrent downloads publish under the same key, one subscriber of the
\* key has left and the other is still connected and has received events
C29_Witness ==
    \E o, q \in Ops : \E s, t \in Subs :
        /\ o # q /\ dl[o].clientKey = dl[q].clientKey
        /\ dl[o].sent >= 1 /\ dl[q].sent >= 1
        /\ sub[s].state = "closed" /\ sub[s].key = dl[o].clientKey
        /\ sub[t].state = "open" /\ sub[t].key = dl[o].clientKey
        /\ Len(sub[t].received) >= 2


Statuses == {"starting", "downloading", "converting", "done", "error", "aborted"}

\* the events invocation o has published, in order
PublishedBy(o) ==
    IF dl[o].clientKey = NoKey THEN <<>> ELSE published[dl[o].clientKey]

\* in log pub, every event whose status is in S comes after a 'starting' event
StartingBefore(pub, S) ==
    \A i \in DOMAIN pub :
        pub[i].status \in S => \E j \in 1..(i - 1) : pub[j].status = "starting"

\* C30 as stated: every published event has one of the six statuses, and
\* 'starting' is published before any 'converting', 'done' or 'error' event
\* of the same audio download
C30_Original ==
    \A o \in Ops :
        /\ \A i \in DOMAIN PublishedBy(o) : PublishedBy(o)[i].status \in Statuses
        /\ StartingBefore(PublishedBy(o), {"converting", "done", "error"})

\* C30 amended: every published event has one of the six statuses, and
\* 'starting' is published, once, before any 'converting' or 'done' event of
\* the same audio download; an 'error' event has no 'starting' before it when
\* the transcoder fails before it has started
C30_StartingBeforeProgress ==
    \A o \in Ops :
        LET pub == PublishedBy(o)
        IN  /\ \A i \in DOMAIN pub : pub[i].status \in Statuses
            /\ StartingBefore(pub, {"converting", "done"})
            /\ Cardinality({i \in DOMAIN pub : pub[i].status = "starting"}) <= 1
            /\ (dl[o].ff = "errored" /\ ~StartingBefore(pub, {"error"})) =>
                   \A i \in DOMAIN pub : pub[i].status # "starting"

\* an audio download has published 'starting', 'converting' and 'done'
C30_Witness ==
    \E o \in Ops :
        LET pub == PublishedBy(o)
        IN  /\ Len(pub) = 3
            /\ pub[1].status = "starting"
            /\ pub[2].status = "converting"
            /\ pub[3].status = "done"


\* C31: a download publishes at most one terminal event (done, error or
\* aborted) and nothing after it, whatever the order of the transcoder's end,
\* the transcoder's error and the close of the client connection
C31_OneTerminalEvent ==
    \A o \in Ops :
        \A i \in DOMAIN PublishedBy(o) :
            PublishedBy(o)[i].status \in Terminal => i = Len(PublishedBy(o))


\* a step in which a JSON error body is written to the response of o
WritesJson(o) == ~dl[o].jsonBody /\ dl'[o].jsonBody

ProcState(d, name) == IF name = "ytProc" THEN d.ytProc ELSE d.dlProc

C34_Isolated ==
    [][\A o, q \in Ops :
          (o # q /\ dl'[o] # dl[o]) =>
              /\ dl'[q] = dl[q]
              /\ (dl[q].tempFilePath # NullPath
                    /\ dl[q].tempFilePath # dl'[o].tempFilePath) =>
                     fs'[dl[q].tempFilePath] = fs[dl[q].tempFilePath]]_vars

\* one invocation was aborted during its download and has removed its temp
\* file, while the other one, with a different path, still has its file and
\* its running fetch process
C34_Witness ==
    \E o, q \in Ops :
        /\ dl[o].tempFilePath # NullPath /\ dl[q].tempFilePath # NullPath
        /\ dl[o].tempFilePath # dl[q].tempFilePath
        /\ dl[o].failure.kind = "aborted" /\ dl[o].unlinks = 1
        /\ dl[q].dlProc = "running" /\ existsSync(fs, dl[q].tempFilePath)


\* a step in which the request of o is rejected during validation
RejectedInValidation(o) == dl[o].pc = "validating" /\ dl'[o].pc = "returned"

\* C35: a request rejected during validation (duration over the ceiling,
\* invalid format, failed metadata lookup) leaves the server state as it was:
\* the registry, the published events and the temp directory are unchanged
\* and no temp path was made
C35_RejectionLeavesState ==
    /\ [][\A o \in Ops :
            RejectedInValidation(o) =>
                /\ progressEmitters' = progressEmitters
                /\ listeners' = listeners
                /\ published' = published
                /\ sub' = sub
                /\ fs' = fs
                /\ dl'[o].tempFilePath = NullPath
                /\ dl'[o].spawned.fetch = 0 /\ dl'[o].spawned.ffmpeg = 0]_vars
    /\ [](\A o \in Ops :
            (dl[o].pc = "returned" /\ dl[o].spawned.fetch = 0) =>
                /\ dl[o].tempFilePath = NullPath
                /\ dl[o].sent = 0
                /\ \A k \in Keys : progressEmitters[k] # 0 => Subscribed(k))

\* a request with the caller's key was rejected for its format while a
\* subscriber of that key was connected
C35_Witness ==
    \E o \in Ops : \E s \in Subs :
        /\ dl[o].pc = "returned" /\ dl[o].statusCode = 400 /\ dl[o].format = "avi"
        /\ dl[o].queryKey # NoKey
        /\ sub[s].state = "open" /\ sub[s].key = dl[o].queryKey /\ o \in sub[s].before


(***************************************************************************)
(* The legacy download handler (src/unnamed/part_000): the same route      *)
(* without progress reporting.  Each callback is a function from the       *)
(* invocation's record and the temp directory to their new values; the     *)
(* record keeps no client key and counts no published event.               *)
(***************************************************************************)
Out(d, fsys) == [d |-> d, fs |-> fsys]

\* the handler up to `await ytDlpMetadata(url)`
LegacyRequest(d, id, rf, qk) ==
    [d EXCEPT !.pc = "validating",
              !.id = id,
              !.format = IF rf = <<>> THEN "mp3" ELSE toLowerCase(rf[1]),
              !.queryKey = qk,
              !.spawned = [@ EXCEPT !.meta = @ + 1]]

\* the handler from the resolved metadata to its next await or return
LegacyAfterMetadata(d0, md, title, now, spawnOk) ==
    LET d == [d0 EXCEPT !.metaDuration = md, !.duration = FloorDuration(md)]
    IN  IF d.duration > MaxDuration THEN [Json(d, 400) EXCEPT !.pc = "returned"]
        ELSE CASE d.format = "mp3" -> StartMp3(d, spawnOk)
               [] d.format = "mp4" -> StartMp4(d, title, now, spawnOk)
               [] OTHER -> [Json(d, 400) EXCEPT !.pc = "returned"]

\* ffmpeg 'error' of the legacy handler
LegacyOnFfError(d) ==
    LET d1 == [d EXCEPT !.ytProc = KillState(@),
                        !.signalled = KillSignals(@, "ytProc", d.ytProc, "SIGTERM"),
                        !.ff = "errored"]
    IN  IF ~d1.headersSent THEN Json(d1, 500) ELSE [d1 EXCEPT !.resFinished = TRUE]

\* req.on('close') of the legacy mp3 branch
LegacyMp3Close(d) ==
    IF d.reqAborted \/ d.resFinished
    THEN [d EXCEPT !.ytProc = KillState(@),
                   !.signalled = KillSignals(@, "ytProc", d.ytProc, "SIGKILL")]
    ELSE d

\* req.emit('close') on the legacy handler's request
LegacyEmitClose(d0, fsys) ==
    LET d1 == IF Has(d0, "mp3Close") THEN LegacyMp3Close(d0) ELSE d0
        d2 == IF Has(d0, "onClientCloseWhileDownloading")
              THEN onClientCloseWhileDownloading(d1) ELSE d1
    IN  IF Has(d0, "mp4StreamClose") THEN Mp4StreamClose(d2, fsys)
        ELSE Out(d2, fsys)

\* the results the legacy handler can reach, by one callback named ev, from
\* record d and directory fsys at clock reading now
LegacyStep(ev, d, fsys, now) ==
    CASE ev = "Request" ->
           {Out(LegacyRequest(d, id, rf, qk), fsys) :
               id \in Ids, rf \in RawFormats, qk \in QueryKeys \cup {NoKey}}
      [] ev = "MetadataResolved" ->
           {Out(LegacyAfterMetadata(d, md, title, now, ok), fsys) :
               md \in MetaDurations, title \in Titles, ok \in BOOLEAN}
      [] ev = "MetadataRejected" ->
           {CatchBlock(Failure(d, "metadata", <<>>, 0), fsys)}
      [] ev = "DlWrite" ->
           LET p == d.tempFilePath
               size == IF fsys[p] = <<>> THEN 0 ELSE fsys[p][1]
           IN  {Out(d, [fsys EXCEPT ![p] = <<size + 1>>])}
      [] ev = "DlExit" ->
           {Out([d EXCEPT !.dlProc = "exited", !.dlCode = code], fsys) : code \in {0, 1}}
      [] ev = "DlError" ->
           {Reject(Failure([d EXCEPT !.dlProc = "failed"], "spawn", <<>>, 0), fsys)}
      [] ev = "DlClose" ->
           {OnDlClose([d EXCEPT !.dlClosed = TRUE], fsys,
                      IF d.dlProc = "exited" THEN d.dlCode ELSE -1,
                      [i \in 1..n |-> i]) : n \in 0..MaxStderr}
      [] ev = "ReadData" ->
           {Out(IF d.conn = "open" THEN [d EXCEPT !.headersSent = TRUE]
                ELSE [d EXCEPT !.readStream = "stalled"], fsys)}
      [] ev = "ReadEnd" ->
           {cleanupTemp([d EXCEPT !.readStream = "ended", !.resFinished = TRUE], fsys)}
      [] ev = "ReadError" ->
           {cleanupTemp([d EXCEPT !.readStream = "errored"], fsys)}
      [] ev = "ClientDisconnect" ->
           {LegacyEmitClose([d EXCEPT !.conn = "closed", !.closeEmitted = TRUE,
                                      !.closedIn = d.pc, !.reqAborted = TRUE], fsys)}
      [] ev = "FinishClose" ->
           {LegacyEmitClose([d EXCEPT !.closeEmitted = TRUE, !.closedIn = d.pc], fsys)}
      [] ev = "YtExit" ->
           {Out([d EXCEPT !.ytProc = "exited", !.ytCode = code], fsys) : code \in {0, 1}}
      [] ev = "YtError" -> {Out([d EXCEPT !.ytProc = "failed"], fsys)}
      [] ev = "FfStart" -> {Out([d EXCEPT !.ff = "running"], fsys)}
      [] ev = "FfProgress" -> {Out([d EXCEPT !.nprogress = @ + 1], fsys)}
      [] ev = "FfError" -> {Out(LegacyOnFfError(d), fsys)}
      [] ev = "FfEnd" -> {Out([d EXCEPT !.ff = "ended"], fsys)}
      [] ev = "PipeEnd" -> {Out([d EXCEPT !.resFinished = TRUE], fsys)}

\* when the event named ev can happen to the legacy handler
LegacyEnabled(ev, d, fsys) ==
    CASE ev = "Request" -> d.pc = "idle"
      [] ev \in {"MetadataResolved", "MetadataRejected"} -> d.pc = "validating"
      [] ev = "DlWrite" ->
           /\ d.dlProc = "running"
           /\ (IF fsys[d.tempFilePath] = <<>> THEN 0 ELSE fsys[d.tempFilePath][1]) < MaxFileSize
      [] ev = "DlExit" -> d.dlProc = "running"
      [] ev = "DlError" -> d.dlProc = "spawnfail"
      [] ev = "DlClose" -> d.dlProc \in {"exited", "killed", "failed"} /\ ~d.dlClosed
      [] ev = "ReadData" -> d.readStream = "open" /\ ~d.headersSent
      [] ev = "ReadEnd" -> d.readStream = "open" /\ d.headersSent /\ d.conn = "open"
      [] ev = "ReadError" -> d.readStream = "open"
      [] ev = "ClientDisconnect" -> d.pc # "idle" /\ d.conn = "open" /\ ~d.closeEmitted
      [] ev = "FinishClose" -> d.resFinished /\ d.conn = "open" /\ ~d.closeEmitted
      [] ev = "YtExit" -> d.ytProc = "running"
      [] ev = "YtError" -> d.ytProc = "spawnfail"
      [] ev = "FfStart" -> d.ff = "pending"
      [] ev = "FfProgress" -> d.ff = "running" /\ d.nprogress < MaxProgress
      [] ev = "FfError" -> d.ff \in {"pending", "running"}
      [] ev = "FfEnd" -> d.ff = "running"
      [] ev = "PipeEnd" -> d.ff \in {"running", "ended", "errored"} /\ ~d.resFinished

EventNames ==
    {"Request", "MetadataResolved", "MetadataRejected", "DlWrite", "DlExit",
     "DlError", "DlClose", "ReadData", "ReadEnd", "ReadError", "ClientDisconnect",
     "FinishClose", "YtExit", "YtError", "FfStart", "FfProgress", "FfError",
     "FfEnd", "PipeEnd"}

\* the callback of the current handler for the event named ev
Current(ev, o) ==
    CASE ev = "Request" -> Request(o)
      [] ev = "MetadataResolved" -> MetadataResolved(o)
      [] ev = "MetadataRejected" -> MetadataRejected(o)
      [] ev = "DlWrite" -> DlWrite(o)
      [] ev = "DlExit" -> DlExit(o)
      [] ev = "DlError" -> DlError(o)
      [] ev = "DlClose" -> DlClose(o)
      [] ev = "ReadData" -> ReadData(o)
      [] ev = "ReadEnd" -> ReadEnd(o)
      [] ev = "ReadError" -> ReadError(o)
      [] ev = "ClientDisconnect" -> ClientDisconnect(o)
      [] ev = "FinishClose" -> FinishClose(o)
      [] ev = "YtExit" -> YtExit(o)
      [] ev = "YtError" -> YtError(o)
      [] ev = "FfStart" -> FfStart(o)
      [] ev = "FfProgress" -> FfProgress(o)
      [] ev = "FfError" -> FfError(o)
      [] ev = "FfEnd" -> FfEnd(o)
      [] ev = "PipeEnd" -> PipeEnd(o)

\* what the two handlers have in common: everything but the client key and
\* the count of published events
WithoutProgress(d) == [d EXCEPT !.clientKey = NoKey, !.sent = 0]

\* C36: the legacy handler and the current handler agree on everything but
\* progress publication: an event can happen to one exactly when it can
\* happen to the other, and each callback of the current handler takes the
\* response (status, headers, end of body), the processes and their signals,
\* and the temp file to what the same callback of the legacy handler takes
\* them to
C36_LegacyEquivalent ==
    /\ [][\A o \in SoloOps : \A ev \in EventNames :
            Current(ev, o) =>
                /\ LegacyEnabled(ev, WithoutProgress(dl[o]), fs)
                /\ Out(WithoutProgress(dl'[o]), fs') \in
                       LegacyStep(ev, WithoutProgress(dl[o]), fs, clock)]_vars
    /\ [](\A o \in SoloOps : \A ev \in EventNames :
            LegacyEnabled(ev, WithoutProgress(dl[o]), fs) => ENABLED Current(ev, o))

\* an audio download whose client left and whose transcoder then failed:
\* two events were published, yt-dlp was killed and the response was ended
C36_Witness ==
    \E o \in SoloOps :
        /\ dl[o].ff = "errored" /\ dl[o].reqAborted /\ dl[o].sent >= 2
        /\ <<"ytProc", "SIGKILL">> \in dl[o].signalled
        /\ dl[o].resFinished

(***************************************************************************)
(* The page: downloadFile of App.jsx and the buttons of VideoCard.jsx.     *)
(* The server is the environment of the page: the answers of fetch, the    *)
(* chunks of the body and the progress messages are inputs.                *)
(***************************************************************************)
Formats  == {"mp4", "mp3"}           \* the two buttons of a card
UiKeys   == {<<i, f>> : i \in Ids, f \in Formats}
Totals   == {0, MaxChunks}           \* Content-Length; 0 when there is none
\* ev.data of a progress message after JSON.parse
SseData  == {Payload("converting", Num(50), <<>>), Payload("error", Absent, <<>>)}

ErrTimeout == "Download timeout or aborted."
ErrEmpty   == "Empty file received"
ErrServer  == "errData.error"
ErrNetwork == "Failed to fetch"

\* prev[key] of a key the map does not hold, spread into an object: no field
\* is set (a missing `downloading` is falsy)
Undefined ==
    [ downloading |-> FALSE, progress |-> Absent, size |-> Absent,
      status |-> "undefined", timemark |-> <<>> ]

\* prev[key]
Entry(d, key) == IF key \in DOMAIN d THEN d[key] ELSE Undefined

\* { ...prev, [key]: e }
Set(d, key, e) == [k \in DOMAIN d \cup {key} |-> IF k = key THEN e ELSE d[k]]

\* copy = { ...prev }; delete copy[key]
Delete(d, key) == [k \in DOMAIN d \ {key} |-> d[k]]

\* { ...prev[key], ...data }: the fields data has replace the entry's
Merge(e, data) ==
    [ e EXCEPT !.status   = data.status,
               !.progress = IF data.progress # Absent THEN data.progress ELSE @,
               !.timemark = IF data.timemark # <<>> THEN data.timemark ELSE @ ]

\* faulty variant of ButtonEnabled: the button is never disabled
ButtonAlwaysEnabled(d, key) == TRUE

\* disabled={!!mp4State}: a click reaches downloadFile only when the map holds
\* no entry for the button's key
ButtonEnabled(d, key) == key \notin DOMAIN d

\* faulty variant of Finally: the EventSource is left open
FinallyKeepsEs(call) ==
    [call EXCEPT !.removal = "pending", !.pc = "returned"]

\* finally { if (es) es.close(); setTimeout(() => delete entry, 1500) }
Finally(call) ==
    [call EXCEPT !.es      = IF @ = "open" THEN "closed" ELSE @,
                 !.removal = "pending",
                 !.pc      = "returned"]

\* clearTimeout(timeoutId)
clearTimeout(call) ==
    [call EXCEPT !.timeoutId = IF @ = "armed" THEN "cleared" ELSE @]

\* catch (err) { clearTimeout(timeoutId); setError(...) } finally { ... }
Catch(c, message, exit) ==
    /\ error' = message
    /\ calls' = [calls EXCEPT ![c] = Finally([clearTimeout(@) EXCEPT !.exit = exit])]

\* a click on an enabled button: downloadFile up to `await fetch`
downloadFile(c, id, format, esOk) ==
    LET key == <<id, format>> IN
    /\ calls[c].pc = "idle"
    /\ ButtonEnabled(downloading, key)
    /\ downloading' = Set(downloading, key,
           [ downloading |-> TRUE, progress |-> Num(0), size |-> Null,
             status |-> "starting", timemark |-> <<>> ])
    /\ error' = ""
    /\ calls' = [calls EXCEPT ![c] =
           [@ EXCEPT !.key = key,
                     !.es = IF esOk THEN "open" ELSE "none",
                     !.timeoutId = "armed",
                     !.pc = "fetch"]]
    /\ UNCHANGED <<dl, fs, clock, progressEmitters, listeners, published, sub>>

\* es.onmessage
OnMessage(c, data) ==
    /\ calls[c].es = "open"
    /\ downloading' = Set(downloading, calls[c].key,
                          Merge(Entry(downloading, calls[c].key), data))
    /\ UNCHANGED <<error, calls>>
    /\ UNCHANGED <<dl, fs, clock, progressEmitters, listeners, published, sub>>

\* the 8-minute timer: controller.abort()
OnTimeout(c) ==
    /\ calls[c].timeoutId = "armed"
    /\ calls' = [calls EXCEPT ![c].timeoutId = "fired", ![c].aborted = TRUE]
    /\ UNCHANGED <<downloading, error>>
    /\ UNCHANGED <<dl, fs, clock, progressEmitters, listeners, published, sub>>

\* fetch resolves with the response's head
FetchResponse(c, ok, total) ==
    /\ calls[c].pc = "fetch"
    /\ ~calls[c].aborted
    /\ IF ~ok
       THEN /\ calls' = [calls EXCEPT ![c] = [clearTimeout(@) EXCEPT !.pc = "json"]]
            /\ UNCHANGED downloading
       ELSE /\ calls' = [calls EXCEPT ![c] =
                   [clearTimeout(@) EXCEPT !.pc = "read", !.total = total]]
            /\ downloading' =
                   IF total # 0
                   THEN Set(downloading, calls[c].key,
                            [Entry(downloading, calls[c].key) EXCEPT !.size = Num(total)])
                   ELSE downloading
    /\ UNCHANGED error
    /\ UNCHANGED <<dl, fs, clock, progressEmitters, listeners, published, sub>>

\* fetch rejects: the request was aborted, or the network failed
FetchRejected(c) ==
    /\ calls[c].pc = "fetch"
    /\ IF calls[c].aborted
       THEN Catch(c, ErrTimeout, "abort")
       ELSE Catch(c, ErrNetwork, "network")
    /\ UNCHANGED downloading
    /\ UNCHANGED <<dl, fs, clock, progressEmitters, listeners, published, sub>>

\* response.json().catch(() => ({})) settles: throw new Error(errData.error || ...)
JsonSettled(c) ==
    /\ calls[c].pc = "json"
    /\ Catch(c, ErrServer, "http")
    /\ UNCHANGED downloading
    /\ UNCHANGED <<dl, fs, clock, progressEmitters, listeners, published, sub>>

\* reader.read() resolves with a chunk (of one block)
ReadChunk(c) ==
    /\ calls[c].pc = "read"
    /\ calls[c].received < MaxChunks
    /\ calls' = [calls EXCEPT ![c].received = @ + 1]
    /\ downloading' = Set(downloading, calls[c].key,
           [Entry(downloading, calls[c].key) EXCEPT
               !.downloading = TRUE,
               !.progress = IF calls[c].total # 0
                            THEN Num(((calls[c].received + 1) * 100) \div calls[c].total)
                            ELSE @])
    /\ UNCHANGED error
    /\ UNCHANGED <<dl, fs, clock, progressEmitters, listeners, published, sub>>

\* reader.read() resolves with done: the blob is saved, or it is empty
ReadDone(c) ==
    /\ calls[c].pc = "read"
    /\ IF calls[c].received = 0
       THEN /\ Catch(c, ErrEmpty, "empty")
            /\ UNCHANGED downloading
       ELSE /\ downloading' = Set(downloading, calls[c].key,
                   [Entry(downloading, calls[c].key) EXCEPT
                       !.progress = Num(100), !.status = "done"])
            /\ calls' = [calls EXCEPT ![c] = Finally([@ EXCEPT !.exit = "success"])]
            /\ UNCHANGED error
    /\ UNCHANGED <<dl, fs, clock, progressEmitters, listeners, published, sub>>

\* reader.read() rejects: the connection broke
ReadFailed(c) ==
    /\ calls[c].pc = "read"
    /\ Catch(c, ErrNetwork, "network")
    /\ UNCHANGED downloading
    /\ UNCHANGED <<dl, fs, clock, progressEmitters, listeners, published, sub>>

\* the 1500 ms timer of `finally`
RemoveEntry(c) ==
    /\ calls[c].removal = "pending"
    /\ downloading' = Delete(downloading, calls[c].key)
    /\ calls' = [calls EXCEPT ![c].removal = "fired"]
    /\ UNCHANGED error
    /\ UNCHANGED <<dl, fs, clock, progressEmitters, listeners, published, sub>>

PageNext ==
    \E c \in Calls :
        \/ \E id \in Ids, format \in Formats, esOk \in BOOLEAN :
               downloadFile(c, id, format, esOk)
        \/ \E data \in SseData : OnMessage(c, data)
        \/ OnTimeout(c)
        \/ \E ok \in BOOLEAN, total \in Totals : FetchResponse(c, ok, total)
        \/ FetchRejected(c)
        \/ JsonSettled(c)
        \/ ReadChunk(c)
        \/ ReadDone(c)
        \/ ReadFailed(c)
        \/ RemoveEntry(c)

SpecPage == Init /\ [][PageNext]_vars

\* setTimeout callbacks run: a timer that is set fires
SpecPageFair == SpecPage /\ \A c \in Calls : WF_vars(RemoveEntry(c))

\* call c has left downloadFile
Returned(c) == calls[c].pc = "returned"

\* call c is between its click and its return
InFlight(c) == calls[c].pc \in {"fetch", "json", "read"}

\* C37: a call that has left downloadFile, by whichever way, has closed the
\* EventSource it opened and has set the timer that removes its entry; the
\* timer fires after the call has left, and when it fires the map holds no
\* entry for the call's key, so that the button of the key is enabled again
C37_ClosesAndRemoves ==
    /\ [](\A c \in Calls :
             Returned(c) => /\ calls[c].es # "open"
                            /\ calls[c].removal # "unset"
                            /\ calls[c].exit \in {"success", "http", "network",
                                                  "abort", "empty"})
    /\ \A c \in Calls : Returned(c) ~> (calls[c].removal = "fired")
    /\ [][\A c \in Calls :
             calls[c].removal # "fired" /\ calls'[c].removal = "fired"
                 => /\ Returned(c)
                    /\ ButtonEnabled(downloading', calls[c].key)]_vars

C37_Witness ==
    /\ calls[1].exit = "abort" /\ calls[1].es = "closed" /\ calls[1].removal = "fired"
    /\ calls[2].exit = "empty" /\ calls[2].es = "closed" /\ calls[2].removal = "fired"
    /\ calls[1].key = calls[2].key
    /\ calls[1].key \notin DOMAIN downloading

\* C38: downloadFile starts for a key only while the map holds no entry for
\* it, and no two calls with the same key are in flight, or hold an open
\* EventSource, at the same time
C38_OnePerKey ==
    /\ [][\A c \in Calls :
             calls[c].pc = "idle" /\ calls'[c].pc # "idle"
                 => calls'[c].key \notin DOMAIN downloading]_vars
    /\ [](\A c1, c2 \in Calls :
             c1 # c2 /\ calls[c1].key = calls[c2].key =>
                 /\ ~(InFlight(c1) /\ InFlight(c2))
                 /\ ~(calls[c1].es = "open" /\ calls[c2].es = "open"))

C38_Witness ==
    /\ Returned(1) /\ calls[1].removal = "fired"
    /\ InFlight(2) /\ calls[2].es = "open" /\ calls[2].key = calls[1].key
    /\ calls[2].key \in DOMAIN downloading

=============================================================================
